---- MODULE Spec2Model ----
(***************************************************************************)
(* Model of the ephemeral session store of server/main.py: the two storage *)
(* backends (Redis and the in-memory map), the session functions           *)
(* create_session / get_session / update_session / delete_session, the     *)
(* upload_photos handler that owns the per-session file directory, and the *)
(* background reaper cleanup_expired_sessions.                             *)
(*                                                                         *)
(* Time is an integer number of minutes.  Every Redis call of a handler    *)
(* either answers or raises; which one is an input of the handler, fixed   *)
(* by the Redis server's mode: "up" (every call answers), "down" (every    *)
(* call raises) or "flaky" (each call answers or raises on its own).       *)
(***************************************************************************)
EXTENDS Integers, Sequences, FiniteSets, TLC

\* ---------------------------------------------------------------- bounds
MaxSessions == 1        \* number of uuid4 identifiers handed out
MaxTime == 30           \* the clock stops here
MaxCreateTime == 0      \* sessions are created up to this instant
MaxSkew == 1            \* clock advance between two successive clock reads
MaxConns == 3           \* websockets that are ever opened
MaxRooms == 2           \* session ids that websockets are opened for
MaxMessages == 2        \* chat messages that are ever sent
MaxReapSessions == 2    \* identifiers handed out where only the reaper is followed
MaxHandlers == 2        \* request handlers that run concurrently
MaxResponses == 3       \* poll responses that are ever accepted for storing

\* ------------------------------------------------------- program constants
SESSION_TTL_MINUTES == 20
READ_GRACE_MINUTES == 2
REAP_GRACE_MINUTES == 5
REAP_INTERVAL_MINUTES == 5

PHOTO_SHARE == "photo_share"
CHAT_ROOM == "chat_room"
QUICK_POLL == "quick_poll"
SessionTypes == {PHOTO_SHARE, CHAT_ROOM}

Ids == 1..MaxSessions
ReapIds == 1..MaxReapSessions

\* Python's None and Optional values: None is the empty tuple, a value v is <<v>>.
None == <<>>
Some(v) == <<v>>
Val(opt) == opt[1]

\* ------------------------------------------------------------ payloads
\* A payload (the "data" dict of a record, or the partial dict of an update)
\* is a function from some of the field names to values.
Fields == {"name", "files"}
Values == {"x", "y"}
EmptyDict == [f \in {} |-> "x"]
Dicts == UNION {[D -> Values] : D \in SUBSET Fields}

\* dict.update(): the fields of partial override, the others are kept.
DictUpdate(d, partial) ==
    [f \in (DOMAIN d) \cup (DOMAIN partial) |->
        IF f \in DOMAIN partial THEN partial[f] ELSE d[f]]

\* Removing and setting a key of a dict-like function.
Pop(m, k) == [x \in (DOMAIN m) \ {k} |-> m[x]]
Put(m, k, v) == [x \in (DOMAIN m) \cup {k} |-> IF x = k THEN v ELSE m[x]]

\* ------------------------------------------------------------ the store
\* A store is the process's session state together with the Redis server's
\* keyspace and the upload directories:
\*   redis_client    TRUE when the global redis_client is set (not None)
\*   redis_db        the server's keys "session:<id>": id -> [val, exp], val the
\*                   stored record and exp the instant the key's TTL runs out
\*   memory_storage  the in-memory fallback dict: id -> record
\*   dirs            the ids that have a directory TMP_DIR/<id>
\*   next_id         the next identifier uuid4 hands out
Record(type, created_at, expires_at, data) ==
    [type |-> type, created_at |-> created_at, expires_at |-> expires_at, data |-> data]

EmptyStore(client) ==
    [redis_client |-> client,
     redis_db |-> [i \in {} |-> 0],
     memory_storage |-> [i \in {} |-> 0],
     dirs |-> {},
     next_id |-> 1]

\* The ids a backend holds a record for.
Held(st) == DOMAIN st.redis_db \cup DOMAIN st.memory_storage

\* The result of a call: the store it leaves, the value it returns and
\* whether it raised to its caller.
Result(st, ret, raised) == [st |-> st, ret |-> ret, raised |-> raised]

\* Redis's native expiry: a key is gone once its TTL has run out.
RedisExpire(st, t) ==
    [st EXCEPT !.redis_db = [i \in {j \in DOMAIN st.redis_db : st.redis_db[j].exp >= t}
                                |-> st.redis_db[i]]]

\* redis.setex(key, ttl, value) at instant t.
RedisSetex(st, id, ttl, rec, t) ==
    [st EXCEPT !.redis_db = Put(st.redis_db, id, [val |-> rec, exp |-> t + ttl])]

\* redis.get(key): json.loads of the stored bytes gives back the dict that
\* json.dumps was given (strings, a nested dict of strings), or None.
RedisGet(st, id) ==
    IF id \in DOMAIN st.redis_db THEN Some(st.redis_db[id].val) ELSE None

\* redis.delete(key).
RedisDelete(st, id) == [st EXCEPT !.redis_db = Pop(st.redis_db, id)]

\* get_redis(): an established client is returned as it is, without a probe;
\* with no client, one is made and pinged, and dropped again if the ping raises.
get_redis(st, ping) ==
    IF st.redis_client THEN st ELSE [st EXCEPT !.redis_client = ping]

\* The two visibility tests.
ReadExpired(rec, t) == t > rec.expires_at + READ_GRACE_MINUTES
ReapExpiredMut(rec, t) == rec.expires_at < t
ReapExpired(rec, t) == rec.expires_at < t - REAP_GRACE_MINUTES

\* get_session(session_id) at instant t; ping and rget tell whether the ping
\* of get_redis and the redis.get answer (TRUE) or raise (FALSE).
get_session(st, id, t, ping, rget) ==
    LET s1 == get_redis(st, ping)
        fromRedis == IF s1.redis_client /\ rget THEN RedisGet(s1, id) ELSE None
    IN  IF fromRedis # None
        THEN IF ReadExpired(Val(fromRedis), t)
             THEN Result(s1, None, FALSE)
             ELSE Result(s1, fromRedis, FALSE)
        ELSE IF id \in DOMAIN s1.memory_storage
             THEN IF ReadExpired(s1.memory_storage[id], t)
                  THEN Result([s1 EXCEPT !.memory_storage = Pop(s1.memory_storage, id)],
                              None, FALSE)
                  ELSE Result(s1, Some(s1.memory_storage[id]), FALSE)
             ELSE Result(s1, None, FALSE)

\* create_session(session_type, data) at instant t: the clock is read once for
\* created_at and once more, d later, for expires_at.  data is a dict or None.
create_session(st, type, data, t, d, ping, rset) ==
    LET id == st.next_id
        session_data == Record(type, t, t + d + SESSION_TTL_MINUTES,
                               IF data = None THEN EmptyDict ELSE Val(data))
        s0 == [st EXCEPT !.next_id = id + 1]
        s1 == get_redis(s0, ping)
    IN  IF s1.redis_client
        THEN IF rset
             THEN Result(RedisSetex(s1, id, SESSION_TTL_MINUTES, session_data, t + d),
                         Some(id), FALSE)
             ELSE Result(s1, None, TRUE)
        ELSE Result([s1 EXCEPT !.memory_storage = Put(s1.memory_storage, id, session_data)],
                    Some(id), FALSE)

\* update_session(session_id, data) at instant t.
update_session(st, id, data, t, ping1, rget, ping2, rset) ==
    LET g == get_session(st, id, t, ping1, rget)
    IN  IF g.ret = None
        THEN Result(g.st, None, FALSE)
        ELSE LET session_data == [Val(g.ret) EXCEPT !.data = DictUpdate(@, data)]
                 s1 == get_redis(g.st, ping2)
                 s2 == IF s1.redis_client /\ rset
                       THEN RedisSetex(s1, id, SESSION_TTL_MINUTES, session_data, t)
                       ELSE s1
             IN  Result([s2 EXCEPT !.memory_storage = Put(s2.memory_storage, id, session_data)],
                        None, FALSE)

\* update_session between its awaits.  First its get_session returns and the
\* update is merged into the record read (None: the function returns).
\* get_session returns the dict kept in memory_storage itself when the record
\* does not come from Redis: what the caller changes in it is changed in the
\* store.
FromMemory(st, id, t, ping, rget) ==
    LET s1 == get_redis(st, ping)
    IN  /\ ~(s1.redis_client /\ rget /\ RedisGet(s1, id) # None)
        /\ get_session(st, id, t, ping, rget).ret # None

update_read(st, id, data, t, ping, rget) ==
    LET g == get_session(st, id, t, ping, rget)
        merged == [Val(g.ret) EXCEPT !.data = DictUpdate(@, data)]
    IN  [st |-> IF FromMemory(st, id, t, ping, rget)
                THEN [g.st EXCEPT !.memory_storage = Put(g.st.memory_storage, id, merged)]
                ELSE g.st,
         session_data |-> IF g.ret = None THEN None ELSE Some(merged)]

\* Then Redis executes the setex, unless there is no client or the call raises.
update_setex(st, id, session_data, t, ping, rset) ==
    LET s1 == get_redis(st, ping)
    IN  IF s1.redis_client /\ rset
        THEN RedisSetex(s1, id, SESSION_TTL_MINUTES, session_data, t)
        ELSE s1

\* Then the function resumes and stores the record in memory_storage.
update_finish(st, id, session_data) ==
    [st EXCEPT !.memory_storage = Put(st.memory_storage, id, session_data)]

\* A request handler that runs concurrently with others:
\*   pc            "idle" (not started), "update" (inside update_session,
\*                 waiting for its get_session), "setex" (waiting for
\*                 redis.setex), "memory" (about to resume after the setex),
\*                 "send" (about to broadcast), "done"
\*   kind          "update", "chat" or "poll"
\*   partial       the dict the handler passes to update_session
\*   session_data  the merged record update_session is writing
\*   conn          the websocket the handler serves
\*   msg           the message the handler received
\*   entry         the list entry the handler made
\*   stored        update_session has written the record
\*   aliased       the list in partial is the list of the record in
\*                 memory_storage (the handler's get_session returned that
\*                 record)
\*   shared        session_data is the record in memory_storage
\*   sent          the handler has broadcast its message
Handlers == 1..MaxHandlers
NoFrame ==
    [pc |-> "idle", kind |-> "", id |-> 0, partial |-> None, session_data |-> None,
     conn |-> 0, msg |-> None, entry |-> None, stored |-> FALSE, sent |-> FALSE,
     aliased |-> FALSE, shared |-> FALSE]

\* Where a handler goes on when its update_session has returned.
AfterUpdate(kind) == IF kind = "chat" THEN "send" ELSE "done"

\* delete_session(session_id) at instant t.
delete_sessionMut(st, id, t, ping1, rdel, ping2, rget) ==
    LET s1 == get_redis(st, ping1)
        s2 == IF s1.redis_client /\ rdel THEN RedisDelete(s1, id) ELSE s1
        s3 == IF s1.redis_client
              THEN s2
              ELSE [s2 EXCEPT !.memory_storage = Pop(s2.memory_storage, id)]
        g == get_session(s3, id, t, ping2, rget)
    IN  Result(g.st, None, FALSE)
delete_session(st, id, t, ping1, rdel, ping2, rget) ==
    LET s1 == get_redis(st, ping1)
        s2 == IF s1.redis_client /\ rdel THEN RedisDelete(s1, id) ELSE s1
        s3 == [s2 EXCEPT !.memory_storage = Pop(s2.memory_storage, id)]
        g == get_session(s3, id, t, ping2, rget)
    IN  IF g.ret # None /\ Val(g.ret).type = PHOTO_SHARE
        THEN Result([g.st EXCEPT !.dirs = @ \ {id}], None, FALSE)
        ELSE Result(g.st, None, FALSE)

\* ------------------------------------------------------------ the reaper
\* The sequences that list every element of S once: the orders in which a
\* cycle may meet the keys.
Orders(S) ==
    {q \in [1..Cardinality(S) -> S] : \A i, j \in 1..Cardinality(S) : i # j => q[i] # q[j]}

\* The Redis branch of one cycle over the keys that redis.keys returned: each
\* key is read again (ans[k].a) and, when its record is past the reap grace
\* period, deleted.  A redis.get that raises ends the cycle in the handler of
\* the loop's try.
RECURSIVE ReapRedis(_, _, _, _)
ReapRedis(st, keys, t, ans) ==
    IF keys = <<>>
    THEN Result(st, None, FALSE)
    ELSE LET key == Head(keys)
             data == RedisGet(st, key)
         IN  IF ~ans[key].a
             THEN Result(st, None, TRUE)
             ELSE IF data # None /\ ReapExpired(Val(data), t)
                  THEN ReapRedis(delete_session(st, key, t, TRUE, ans[key].b,
                                                ans[key].c, ans[key].d).st,
                                 Tail(keys), t, ans)
                  ELSE ReapRedis(st, Tail(keys), t, ans)

\* The in-memory branch: the expired ids were collected first, then each is
\* deleted.
RECURSIVE ReapMemory(_, _, _, _)
ReapMemory(st, expired_sessions, t, ans) ==
    IF expired_sessions = <<>>
    THEN Result(st, None, FALSE)
    ELSE LET id == Head(expired_sessions)
         IN  ReapMemory(delete_session(st, id, t, ans[id].a, ans[id].b,
                                       ans[id].c, ans[id].d).st,
                        Tail(expired_sessions), t, ans)

\* The ids one cycle goes through: every Redis key when there is a client,
\* else the in-memory records past the reap grace period.
ReapTargets(st, t, ping) ==
    IF get_redis(st, ping).redis_client
    THEN DOMAIN st.redis_db
    ELSE {id \in DOMAIN st.memory_storage : ReapExpired(st.memory_storage[id], t)}

\* The ids on which a Redis call of the cycle raised: in the Redis branch the
\* keys up to the one whose redis.get ended the cycle, in the in-memory
\* branch the ids whose delete_session met an error.
ReapFailed(st, t, ping, rkeys, order, ans) ==
    IF get_redis(st, ping).redis_client
    THEN IF ~rkeys THEN {}
         ELSE {order[i] : i \in {n \in 1..Len(order) :
                   /\ \A j \in 1..(n - 1) : ans[order[j]].a
                   /\ \/ ~ans[order[n]].a
                      \/ /\ RedisGet(st, order[n]) # None
                         /\ ReapExpired(Val(RedisGet(st, order[n])), t)
                         /\ ~(ans[order[n]].b /\ ans[order[n]].d)}}
    ELSE {order[i] : i \in {n \in 1..Len(order) :
              ~(ans[order[n]].a /\ ans[order[n]].b /\ ans[order[n]].c /\ ans[order[n]].d)}}

\* The ids one cycle has enumerated: none when redis.keys raised.
ReapListed(st, t, ping, rkeys) ==
    IF get_redis(st, ping).redis_client /\ ~rkeys THEN {} ELSE ReapTargets(st, t, ping)

\* One cycle of cleanup_expired_sessions at instant t, meeting its targets in
\* the order given.  raised tells that the cycle ended in its except clause.
cleanup_cycle(st, t, ping, rkeys, order, ans) ==
    LET s1 == get_redis(st, ping)
    IN  IF s1.redis_client
        THEN IF rkeys THEN ReapRedis(s1, order, t, ans) ELSE Result(s1, None, TRUE)
        ELSE ReapMemory(s1, order, t, ans)

\* ------------------------------------------------- the ConnectionManager
Conns == 1..MaxConns
Rooms == 1..MaxRooms

\* A websocket: "new" before its handler has started, "open" while the handler
\* serves it, "gone" once the peer has left and the handler has not yet seen
\* WebSocketDisconnect, "closed" when the handler has ended through its
\* except clause, "crashed" when it has ended with any other exception.
Socket(state, session_id) == [state |-> state, id |-> session_id]

InList(l, x) == \E i \in 1..Len(l) : l[i] = x

\* list.remove(x): the first occurrence of x is taken out.
RECURSIVE Remove(_, _)
Remove(l, x) ==
    IF l = <<>> THEN <<>>
    ELSE IF Head(l) = x THEN Tail(l)
    ELSE <<Head(l)>> \o Remove(Tail(l), x)

\* ConnectionManager.connect, after websocket.accept().
connect(ac, websocket, session_id) ==
    Put(ac, session_id,
        Append(IF session_id \in DOMAIN ac THEN ac[session_id] ELSE <<>>, websocket))

\* ConnectionManager.disconnect; list.remove raises ValueError for a websocket
\* that is not in the list, and the entry stays as it is.
disconnectMut(ac, websocket, session_id) ==
    IF session_id \notin DOMAIN ac \/ ~InList(ac[session_id], websocket)
    THEN ac
    ELSE Put(ac, session_id, Remove(ac[session_id], websocket))
disconnect(ac, websocket, session_id) ==
    IF session_id \notin DOMAIN ac \/ ~InList(ac[session_id], websocket)
    THEN ac
    ELSE LET l == Remove(ac[session_id], websocket)
         IN  IF l = <<>> THEN Pop(ac, session_id) ELSE Put(ac, session_id, l)

\* connection.send_text(...): one delivery attempt; it raises when the peer
\* has gone.
send_text(socks, connection) ==
    [conn |-> connection, ok |-> socks[connection].state = "open"]

\* A call of send_to_session(message, session_id):
\*   status     "idle" (no call yet), "running" or "done"
\*   pos        the index the list iterator reads next
\*   detached   the entry was deleted while the loop ran: the iterator is
\*              left with the emptied list
\*   attempts   the delivery attempts made, in order
\*   stayed     the connections registered from the start of the call on
\*   disturbed  a connect or disconnect on session_id ran during the call
\*   raised     an exception left the call
Idle ==
    [status |-> "idle", id |-> 0, msg |-> None, pos |-> 0, detached |-> FALSE,
     attempts |-> <<>>, stayed |-> {}, disturbed |-> FALSE,
     raised |-> FALSE]

\* The list the for loop of a running call iterates over.
Iterated(snd, ac) ==
    IF snd.detached \/ snd.id \notin DOMAIN ac THEN <<>> ELSE ac[snd.id]

\* One turn of the for loop: the next connection is tried, an exception of
\* send_text is swallowed; past the end of the list the call returns.
send_stepMutSkip(snd, ac, socks) ==
    LET l == Iterated(snd, ac)
    IN  IF snd.pos > Len(l)
        THEN [snd EXCEPT !.status = "done"]
        ELSE IF snd.pos = 1 /\ Len(l) > 1
             THEN [snd EXCEPT !.pos = @ + 1]
             ELSE [snd EXCEPT !.attempts = Append(@, send_text(socks, l[snd.pos])),
                              !.pos = @ + 1]
send_stepMutAbort(snd, ac, socks) ==
    LET l == Iterated(snd, ac)
    IN  IF snd.pos > Len(l)
        THEN [snd EXCEPT !.status = "done"]
        ELSE IF send_text(socks, l[snd.pos]).ok
             THEN [snd EXCEPT !.attempts = Append(@, send_text(socks, l[snd.pos])),
                              !.pos = @ + 1]
             ELSE [snd EXCEPT !.attempts = Append(@, send_text(socks, l[snd.pos])),
                              !.status = "done", !.raised = TRUE]
send_step(snd, ac, socks) ==
    LET l == Iterated(snd, ac)
    IN  IF snd.pos > Len(l)
        THEN [snd EXCEPT !.status = "done"]
        ELSE [snd EXCEPT !.attempts = Append(@, send_text(socks, l[snd.pos])),
                         !.pos = @ + 1]

\* The call up to its first await: nothing to do without an entry, else the
\* loop starts and tries the first connection.
send_start(message, session_id, ac, socks) ==
    IF session_id \notin DOMAIN ac
    THEN [Idle EXCEPT !.status = "done", !.id = session_id, !.msg = Some(message)]
    ELSE send_step([Idle EXCEPT !.status = "running", !.id = session_id,
                                !.msg = Some(message), !.pos = 1,
                                !.stayed = {ac[session_id][i] : i \in 1..Len(ac[session_id])}],
                   ac, socks)

\* send_to_session(message, session_id) with no other handler running
\* during its awaits.
RECURSIVE SendRun(_, _, _)
SendRun(snd, ac, socks) ==
    IF snd.status = "done" THEN snd ELSE SendRun(send_step(snd, ac, socks), ac, socks)

send_to_session(message, session_id, ac, socks) ==
    SendRun(send_start(message, session_id, ac, socks), ac, socks)

\* Once a call has returned, nothing of it is left when the next handler runs.
Returned(snd) == IF snd.status = "done" THEN Idle ELSE snd

\* What a connect or disconnect on session_id does to a running call.
Disturb(snd, ac2, websocket, session_id) ==
    IF snd.status = "running" /\ snd.id = session_id
    THEN [snd EXCEPT !.disturbed = TRUE,
                     !.stayed = @ \ {websocket},
                     !.detached = @ \/ session_id \notin DOMAIN ac2]
    ELSE Returned(snd)

\* ------------------------------------------------------------ the state
VARIABLES
    now,         \* the clock, in minutes
    redis_mode,  \* "up", "down" or "flaky": how the Redis server answers
    store,       \* the store of the process
    next_reap,   \* the instant the reaper's sleep ends
    ledger,      \* per id: was it handed out, when does it expire, was delete_session called on it
    last,        \* the last call and what it returned
    mirror,      \* TRUE when the calls are replayed on twin
    twin,        \* a second process given the same calls, its Redis server down
    active_connections,  \* manager.active_connections: session id -> list of websockets
    sockets,     \* per websocket: how far its handler is, and the session id it was opened for
    sending,     \* the send_to_session call in progress, or the last one completed
    inflight     \* the request handlers that run concurrently, each with its position

hubvars == <<active_connections, sockets, sending, inflight>>
vars == <<now, redis_mode, store, next_reap, ledger, last, mirror, twin, hubvars>>

Modes == {"up", "down", "flaky"}

\* What one Redis call may do: answer (TRUE) or raise (FALSE).
Answers == IF redis_mode = "up" THEN {TRUE}
           ELSE IF redis_mode = "down" THEN {FALSE}
           ELSE BOOLEAN

\* The answers to the calls made for one key in a reap cycle; with a client
\* no call of the cycle pings (c).
KeyAnswers(client) ==
    [a : Answers, b : Answers, c : IF client THEN {TRUE} ELSE Answers, d : Answers]

Call(op, id, type, data, ret, raised, tret) ==
    [op |-> op, id |-> id, type |-> type, data |-> data, ret |-> ret,
     raised |-> raised, tret |-> tret, reaped |-> {}, listed |-> {}, failed |-> {}]
NoCall == Call("none", 0, "", None, None, FALSE, None)

NotCreated == [state |-> "none", expires_at |-> 0]
Live(expires_at) == [state |-> "live", expires_at |-> expires_at]
Deleted == [state |-> "deleted", expires_at |-> 0]

\* startup_event: get_redis() probes the server once, then the reaper task
\* starts its first cycle.
InitWith(mode, m) ==
    /\ now = 0
    /\ redis_mode = mode
    /\ \E ping \in Answers : store = get_redis(EmptyStore(FALSE), ping)
    /\ next_reap = 0
    /\ ledger = [i \in Ids \cup ReapIds |-> NotCreated]
    /\ last = NoCall
    /\ mirror = m
    /\ twin = EmptyStore(FALSE)
    /\ active_connections = [i \in {} |-> <<>>]
    /\ sockets = [c \in Conns |-> Socket("new", 0)]
    /\ sending = Idle
    /\ inflight = [h \in Handlers |-> NoFrame]

Init == InitWith("flaky", FALSE)
InitUp == InitWith("up", FALSE)
InitDown == InitWith("down", FALSE)
InitTwin == InitWith("up", TRUE)
InitSteady == \E mode \in {"up", "down"} : InitWith(mode, FALSE)

\* The twin after the same call: r is the call's result on twin.
Mirror(r) == IF mirror THEN r ELSE Result(twin, None, FALSE)

\* ------------------------------------------------------------ the calls
\* The answer of the ping in get_redis matters only while there is no client.
Pings(st) == IF st.redis_client THEN {TRUE} ELSE Answers

\* create_session(type, data), for one of the first limit identifiers; the
\* clock advances by d between its two reads.
CreateSessionWithin(limit, type, data, d) ==
    /\ store.next_id <= limit
    /\ now <= MaxCreateTime
    /\ now + d <= MaxTime
    /\ \E ping \in Pings(store), rset \in Answers :
        LET r == create_session(store, type, data, now, d, ping, rset)
            w == Mirror(create_session(twin, type, data, now, d, FALSE, FALSE))
        IN  /\ store' = RedisExpire(r.st, now + d)
            /\ twin' = w.st
            /\ last' = Call("create_session", store.next_id, type, data, r.ret, r.raised, w.ret)
            /\ ledger' = IF r.raised THEN ledger
                         ELSE [ledger EXCEPT ![store.next_id] =
                                  Live(now + d + SESSION_TTL_MINUTES)]
    /\ now' = now + d
    /\ UNCHANGED <<redis_mode, next_reap, mirror, hubvars>>

CreateSession(type, data, d) == CreateSessionWithin(MaxSessions, type, data, d)

\* upload_photos(files): a photo session is created, its directory made, the
\* images written (bad: one of them is refused and the handler raises) and
\* the list of files stored in the record.
upload_photos(st, files, bad, t, ping1, rset1, ping2, rget, ping3, rset2) ==
    LET c == create_session(st, PHOTO_SHARE, None, t, 0, ping1, rset1)
    IN  IF c.raised
        THEN c
        ELSE LET id == Val(c.ret)
                 s1 == [c.st EXCEPT !.dirs = @ \cup {id}]
             IN  IF bad
                 THEN Result(s1, None, TRUE)
                 ELSE Result(update_session(s1, id, [f \in {"files"} |-> files], t,
                                            ping2, rget, ping3, rset2).st,
                             c.ret, FALSE)

UploadPhotos(files, bad) ==
    /\ store.next_id <= MaxSessions
    /\ now <= MaxCreateTime
    /\ \E ping1 \in Pings(store), rset1 \in Answers, rget \in Answers, rset2 \in Answers :
       \E ping2 \in Pings(get_redis(store, ping1)) :
       \E ping3 \in Pings(get_redis(get_redis(store, ping1), ping2)) :
        LET r == upload_photos(store, files, bad, now, ping1, rset1, ping2, rget, ping3, rset2)
            w == Mirror(upload_photos(twin, files, bad, now, FALSE, FALSE, FALSE, FALSE,
                                      FALSE, FALSE))
        IN  /\ store' = r.st
            /\ twin' = w.st
            /\ last' = Call("upload_photos", store.next_id, PHOTO_SHARE, None, r.ret,
                            r.raised, w.ret)
            /\ ledger' = IF store.next_id \in DOMAIN r.st.redis_db \cup DOMAIN r.st.memory_storage
                         THEN [ledger EXCEPT ![store.next_id] = Live(now + SESSION_TTL_MINUTES)]
                         ELSE ledger
    /\ UNCHANGED <<now, redis_mode, next_reap, mirror, hubvars>>

\* get_session(id).
GetSession(id) ==
    /\ \E ping \in Pings(store), rget \in Answers :
        LET r == get_session(store, id, now, ping, rget)
            w == Mirror(get_session(twin, id, now, FALSE, FALSE))
        IN  /\ store' = r.st
            /\ twin' = w.st
            /\ last' = Call("get_session", id, "", None, r.ret, r.raised, w.ret)
    /\ UNCHANGED <<now, redis_mode, next_reap, ledger, mirror, hubvars>>

\* update_session(id, data).
UpdateSession(id, data) ==
    /\ \E ping1 \in Pings(store), rget \in Answers, rset \in Answers :
       \E ping2 \in Pings(get_redis(store, ping1)) :
        LET r == update_session(store, id, data, now, ping1, rget, ping2, rset)
            w == Mirror(update_session(twin, id, data, now, FALSE, FALSE, FALSE, FALSE))
        IN  /\ store' = r.st
            /\ twin' = w.st
            /\ last' = Call("update_session", id, "", Some(data), r.ret, r.raised, w.ret)
    /\ UNCHANGED <<now, redis_mode, next_reap, ledger, mirror, hubvars>>

\* delete_session(id).
DeleteSession(id) ==
    /\ \E ping1 \in Pings(store), rdel \in Answers, rget \in Answers :
       \E ping2 \in Pings(get_redis(store, ping1)) :
        LET r == delete_session(store, id, now, ping1, rdel, ping2, rget)
            w == Mirror(delete_session(twin, id, now, FALSE, FALSE, FALSE, FALSE))
        IN  /\ store' = r.st
            /\ twin' = w.st
            /\ last' = Call("delete_session", id, "", None, r.ret, r.raised, w.ret)
    /\ ledger' = [ledger EXCEPT ![id] = IF @.state = "live" THEN Deleted ELSE @]
    /\ UNCHANGED <<now, redis_mode, next_reap, mirror, hubvars>>

\* The instant the loop wakes up again after a cycle that started at t: the
\* sleep at the end of the try, or the one in the except clause when the
\* cycle raised; either way the while loop goes on.
reaper_sleepMut(raised, t) == IF raised THEN t + 1000 ELSE t + REAP_INTERVAL_MINUTES
reaper_sleep(raised, t) ==
    IF raised THEN t + REAP_INTERVAL_MINUTES ELSE t + REAP_INTERVAL_MINUTES

\* One cycle of the reaper, when its sleep has ended, and the next sleep.
CleanupExpiredSessions ==
    /\ now >= next_reap
    /\ \E ping \in Pings(store), rkeys \in Answers :
        \E order \in Orders(ReapTargets(store, now, ping)) :
        \E ans \in [ReapTargets(store, now, ping) ->
                        KeyAnswers(get_redis(store, ping).redis_client)] :
            LET r == cleanup_cycle(store, now, ping, rkeys, order, ans)
            IN  /\ store' = r.st
                /\ last' = [Call("cleanup_expired_sessions", 0, "", None, None, r.raised, None)
                               EXCEPT !.reaped = Held(store) \ Held(r.st),
                                      !.listed = ReapListed(store, now, ping, rkeys),
                                      !.failed = ReapFailed(store, now, ping, rkeys,
                                                            order, ans)]
                /\ next_reap' = reaper_sleep(r.raised, now)
    /\ twin' = IF mirror
               THEN LET tt == ReapTargets(twin, now, FALSE)
                        to == CHOOSE q \in Orders(tt) : TRUE
                    IN  cleanup_cycle(twin, now, FALSE, FALSE, to,
                                      [k \in tt |-> [a |-> FALSE, b |-> FALSE,
                                                     c |-> FALSE, d |-> FALSE]]).st
               ELSE twin
    /\ UNCHANGED <<now, redis_mode, ledger, mirror, hubvars>>

\* A minute passes; the reaper's sleep does not overrun.
Tick ==
    /\ now < MaxTime
    /\ now < next_reap
    /\ now' = now + 1
    /\ store' = RedisExpire(store, now + 1)
    /\ last' = NoCall
    /\ UNCHANGED <<redis_mode, next_reap, ledger, mirror, twin, hubvars>>

\* ------------------------------------------------- the websocket handlers
storevars == <<now, redis_mode, store, next_reap, ledger, last, mirror, twin, inflight>>

\* A websocket handler starts for session_id: manager.connect.
Connect(c, session_id) ==
    /\ sockets[c].state = "new"
    /\ active_connections' = connect(active_connections, c, session_id)
    /\ sockets' = [sockets EXCEPT ![c] = Socket("open", session_id)]
    /\ sending' = Disturb(sending, active_connections', c, session_id)
    /\ UNCHANGED storevars

\* The peer of a websocket leaves.
PeerCloses(c) ==
    /\ sockets[c].state = "open"
    /\ sockets' = [sockets EXCEPT ![c].state = "gone"]
    /\ sending' = Returned(sending)
    /\ UNCHANGED <<storevars, active_connections>>

\* receive_text raises WebSocketDisconnect in the handler: manager.disconnect,
\* and the handler ends.
\* The client of c sends text that is not JSON: json.loads raises a
\* JSONDecodeError, which the handler's except clause does not catch; the
\* handler ends and the framework closes the socket.
BadMessage(c) ==
    /\ sockets[c].state = "open"
    /\ sockets' = [sockets EXCEPT ![c].state = "crashed"]
    /\ sending' = Returned(sending)
    /\ UNCHANGED <<storevars, active_connections>>

Disconnect(c) ==
    /\ sockets[c].state = "gone"
    /\ active_connections' = disconnect(active_connections, c, sockets[c].id)
    /\ sockets' = [sockets EXCEPT ![c] = Socket("closed", 0)]
    /\ sending' = Disturb(sending, active_connections', c, sockets[c].id)
    /\ UNCHANGED storevars

\* manager.send_to_session(message, session_id) is called and runs up to its
\* first await.
SendStart(message, session_id) ==
    /\ sending.status # "running"
    /\ sending' = send_start(message, session_id, active_connections, sockets)
    /\ UNCHANGED <<storevars, active_connections, sockets>>

\* The call resumes after an await.
SendStep ==
    /\ sending.status = "running"
    /\ sending' = send_step(sending, active_connections, sockets)
    /\ UNCHANGED <<storevars, active_connections, sockets>>

\* The message a client sends.
ChatText == [text |-> "hi"]

\* dict.get("messages", []).
Messages(data) == IF "messages" \in DOMAIN data THEN data.messages ELSE <<>>

\* One turn of the loop of chat_websocket at instant t, after receive_text
\* has returned message_data: the message is stored in the session's record
\* under a fresh uuid4 and message_data is broadcast.  snd is the broadcast
\* it makes, Idle when it makes none.
chat_message(st, ac, socks, session_id, message_data, t, ping1, rget1, ping2, rget2, ping3, rset) ==
    LET g == get_session(st, session_id, t, ping1, rget1)
    IN  IF g.ret = None
        THEN [st |-> g.st, snd |-> Idle]
        ELSE LET entry == [id |-> g.st.next_id, text |-> message_data.text, timestamp |-> t]
                 messages == Append(Messages(Val(g.ret).data), entry)
                 s1 == [g.st EXCEPT !.next_id = @ + 1]
                 u == update_session(s1, session_id, [f \in {"messages"} |-> messages], t,
                                     ping2, rget2, ping3, rset)
             IN  [st |-> u.st, snd |-> send_to_session(message_data, session_id, ac, socks)]

\* A client sends a message over websocket c and the handler deals with it.
ChatMessage(c, message_data) ==
    /\ sockets[c].state = "open"
    /\ sending.status # "running"
    /\ store.next_id <= MaxSessions + MaxMessages
    /\ \E ping1 \in Pings(store), rget1 \in Answers, rget2 \in Answers, rset \in Answers :
       \E ping2 \in Pings(get_redis(store, ping1)) :
       \E ping3 \in Pings(get_redis(get_redis(store, ping1), ping2)) :
        LET r == chat_message(store, active_connections, sockets, sockets[c].id,
                              message_data, now, ping1, rget1, ping2, rget2, ping3, rset)
        IN  /\ store' = r.st
            /\ sending' = r.snd
            /\ last' = Call("chat_websocket", sockets[c].id, "", Some(message_data),
                            None, FALSE, None)
    /\ UNCHANGED <<now, redis_mode, next_reap, ledger, mirror, twin, active_connections,
                   sockets, inflight>>

\* ------------------------------------------------- concurrent handlers
othervars == <<now, redis_mode, next_reap, ledger, mirror, twin, active_connections, sockets>>

\* The dict h passes to update_session: a list that is the list of the
\* record in memory_storage holds what that record holds by now.
Partial(h) ==
    LET f == inflight[h]
    IN  IF f.aliased /\ f.id \in DOMAIN store.memory_storage
        THEN [Val(f.partial) EXCEPT !.responses = store.memory_storage[f.id].data.responses]
        ELSE Val(f.partial)

\* The record h's update_session is writing: the record in memory_storage
\* when it is that one.
SessionData(h) ==
    LET f == inflight[h]
    IN  IF f.shared /\ f.id \in DOMAIN store.memory_storage
        THEN store.memory_storage[f.id]
        ELSE Val(f.session_data)

\* update_session(id, data) is called by handler h.
UpdateCall(h, id, data) ==
    /\ inflight[h].pc = "idle"
    /\ inflight' = [inflight EXCEPT ![h] =
           [NoFrame EXCEPT !.pc = "update", !.kind = "update", !.id = id,
                           !.partial = Some(data)]]
    /\ UNCHANGED <<othervars, store, last, sending>>

\* The get_session of h's update_session returns.
UpdateRead(h) ==
    /\ inflight[h].pc = "update"
    /\ \E ping \in Pings(store), rget \in Answers :
        LET r == update_read(store, inflight[h].id, Partial(h), now, ping, rget)
        IN  /\ store' = r.st
            /\ inflight' = [inflight EXCEPT ![h] =
                   IF r.session_data = None
                   THEN [@ EXCEPT !.pc = AfterUpdate(inflight[h].kind)]
                   ELSE [@ EXCEPT !.pc = "setex", !.session_data = r.session_data,
                                  !.shared = FromMemory(store, inflight[h].id, now,
                                                        ping, rget)]]
    /\ UNCHANGED <<othervars, last, sending>>

\* Redis executes the setex of h's update_session.
UpdateSetex(h) ==
    /\ inflight[h].pc = "setex"
    /\ \E ping \in Pings(store), rset \in Answers :
        store' = update_setex(store, inflight[h].id, SessionData(h), now, ping, rset)
    /\ inflight' = [inflight EXCEPT ![h].pc = "memory"]
    /\ UNCHANGED <<othervars, last, sending>>

\* h's update_session resumes, writes memory_storage and returns.
UpdateFinish(h) ==
    /\ inflight[h].pc = "memory"
    /\ store' = update_finish(store, inflight[h].id, SessionData(h))
    /\ inflight' = [inflight EXCEPT ![h] =
           [@ EXCEPT !.pc = AfterUpdate(inflight[h].kind), !.stored = TRUE]]
    /\ UNCHANGED <<othervars, last, sending>>

\* The handler of websocket c, run as h, receives message_data: it reads the
\* session and, when there is one, makes the entry and calls update_session.
ChatReceive(h, c, message_data) ==
    /\ inflight[h].pc = "idle"
    /\ sockets[c].state = "open"
    /\ \A g \in Handlers : inflight[g].pc \in {"idle", "done"} \/ inflight[g].conn # c
    /\ \E ping \in Pings(store), rget \in Answers :
        LET g == get_session(store, sockets[c].id, now, ping, rget)
            entry == [id |-> g.st.next_id, text |-> message_data.text, timestamp |-> now]
        IN  IF g.ret = None
            THEN /\ store' = g.st
                 /\ inflight' = [inflight EXCEPT ![h] =
                        [NoFrame EXCEPT !.pc = "done", !.kind = "chat", !.conn = c,
                                        !.id = sockets[c].id, !.msg = Some(message_data)]]
            ELSE /\ store' = [g.st EXCEPT !.next_id = @ + 1]
                 /\ inflight' = [inflight EXCEPT ![h] =
                        [NoFrame EXCEPT !.pc = "update", !.kind = "chat", !.conn = c,
                                        !.id = sockets[c].id, !.msg = Some(message_data),
                                        !.entry = Some(entry),
                                        !.partial = Some([f \in {"messages"} |->
                                            Append(Messages(Val(g.ret).data), entry)])]]
    /\ UNCHANGED <<othervars, last, sending>>

\* update_session has returned to the chat handler h, which broadcasts the
\* message it received; ret tells whether update_session stored the record.
ChatSend(h) ==
    /\ inflight[h].pc = "send"
    /\ sending' = send_to_session(Val(inflight[h].msg), inflight[h].id,
                                  active_connections, sockets)
    /\ last' = Call("send_to_session", inflight[h].id, "", inflight[h].msg,
                    Some(inflight[h].stored), FALSE, None)
    /\ inflight' = [inflight EXCEPT ![h] = [@ EXCEPT !.pc = "done", !.sent = TRUE]]
    /\ UNCHANGED <<othervars, store>>

\* The payload create_quick_poll stores: one question, results shown once
\* two responses are in.
PollPayload ==
    [questions |-> <<"q">>, min_responses |-> 2, responses |-> <<>>, results_shown |-> FALSE]

\* The answers a client submits: one per question, or one too many.
PollAnswers == {<<"a">>, <<"a", "b">>}

\* submit_poll_response(session_id, responses), run as h, up to its call of
\* update_session: the 404 and 400 exits end the handler. The append is made
\* on the list of the record get_session returned.
SubmitPoll(h, session_id, responses) ==
    /\ inflight[h].pc \in {"idle", "done"}
    /\ store.next_id <= MaxResponses + 1
    /\ \E ping \in Pings(store), rget \in Answers :
        LET g == get_session(store, session_id, now, ping, rget)
            rejected == [NoFrame EXCEPT !.pc = "done", !.kind = "poll", !.id = session_id]
        IN  IF g.ret = None \/ Val(g.ret).type # QUICK_POLL
            THEN store' = g.st /\ inflight' = [inflight EXCEPT ![h] = rejected]
            ELSE IF Val(g.ret).data.results_shown
            THEN store' = g.st /\ inflight' = [inflight EXCEPT ![h] = rejected]
            ELSE IF Len(responses) # Len(Val(g.ret).data.questions)
            THEN store' = g.st /\ inflight' = [inflight EXCEPT ![h] = rejected]
            ELSE LET entry == [id |-> g.st.next_id, responses |-> responses,
                               timestamp |-> now]
                     poll_responses == Append(Val(g.ret).data.responses, entry)
                     results_shown ==
                         Len(poll_responses) >= Val(g.ret).data.min_responses
                     aliased == FromMemory(store, session_id, now, ping, rget)
                     appended == [Val(g.ret) EXCEPT !.data.responses = poll_responses]
                 IN  /\ store' = [g.st EXCEPT
                            !.next_id = @ + 1,
                            !.memory_storage = IF aliased THEN Put(@, session_id, appended)
                                               ELSE @]
                     /\ inflight' = [inflight EXCEPT ![h] =
                            [NoFrame EXCEPT !.pc = "update", !.kind = "poll",
                                            !.id = session_id, !.entry = Some(entry),
                                            !.aliased = aliased,
                                            !.partial = Some(
                                                [responses |-> poll_responses,
                                                 results_shown |-> results_shown])]]
    /\ UNCHANGED <<othervars, last, sending>>

\* get_poll_results(session_id): 404 without a poll, 400 while the record
\* read does not show its results, else the record's responses.
get_poll_results(st, session_id, t, ping, rget) ==
    LET g == get_session(st, session_id, t, ping, rget)
    IN  IF g.ret = None \/ Val(g.ret).type # QUICK_POLL
        THEN Result(g.st, None, TRUE)
        ELSE IF ~Val(g.ret).data.results_shown
        THEN Result(g.st, None, TRUE)
        ELSE Result(g.st, Some(Val(g.ret).data.responses), FALSE)

\* The call record keeps, as data, the record the handler's get_session
\* returned.
GetPollResults(session_id) ==
    /\ \E ping \in Pings(store), rget \in Answers :
        LET r == get_poll_results(store, session_id, now, ping, rget)
            session_data == get_session(store, session_id, now, ping, rget).ret
        IN  /\ store' = r.st
            /\ last' = Call("get_poll_results", session_id, "", session_data, r.ret,
                            r.raised, None)
    /\ UNCHANGED <<othervars, inflight, sending>>

\* Another name a room is given.
RetitlePayload == [f \in {"name"} |-> "z"]

\* create_chat_room's initial payload.
ChatRoomPayload == [name |-> "x", messages |-> <<>>]

\* A chat room, the websockets of its clients and the messages they send.
NextChat ==
    \/ CreateSession(CHAT_ROOM, Some(ChatRoomPayload), 0)
    \/ \E c \in Conns, session_id \in Rooms : Connect(c, session_id)
    \/ \E c \in Conns : PeerCloses(c)
    \/ \E c \in Conns : Disconnect(c)
    \/ \E c \in Conns : ChatMessage(c, ChatText)
    \/ \E c \in Conns : BadMessage(c)

\* The ConnectionManager under the handlers that call it.
NextHub ==
    \/ \E c \in Conns, session_id \in Rooms : Connect(c, session_id)
    \/ \E c \in Conns : PeerCloses(c)
    \/ \E c \in Conns : Disconnect(c)
    \/ \E session_id \in Rooms : SendStart(ChatText, session_id)
    \/ SendStep

\* The Redis server stops answering: from here on every call to it raises.
Outage ==
    /\ redis_mode = "up"
    /\ redis_mode' = "down"
    /\ last' = NoCall
    /\ UNCHANGED <<now, store, next_reap, ledger, mirror, twin, hubvars>>

\* The Redis server, unreachable so far, answers from here on.
Recovery ==
    /\ redis_mode = "down"
    /\ redis_mode' = "up"
    /\ last' = NoCall
    /\ UNCHANGED <<now, store, next_reap, ledger, mirror, twin, hubvars>>

\* The payloads of the handlers: create_chat_room's initial payload and a
\* later update of the name.
RoomPayload == [f \in {"name"} |-> "x"]
RenamePayload == [f \in {"name"} |-> "y"]

\* The life of sessions over time: the handlers with their own payloads, the
\* reaper and the clock.
Next ==
    \/ CreateSession(CHAT_ROOM, Some(RoomPayload), 0)
    \/ \E bad \in BOOLEAN : UploadPhotos("x", bad)
    \/ \E id \in Ids : GetSession(id)
    \/ \E id \in Ids : UpdateSession(id, RenamePayload)
    \/ \E id \in Ids : DeleteSession(id)
    \/ CleanupExpiredSessions
    \/ Tick

\* The session functions on every type and payload, at one instant.
NextData ==
    \/ \E type \in SessionTypes, data \in {None} \cup {Some(x) : x \in Dicts}, d \in 0..MaxSkew :
          CreateSession(type, data, d)
    \/ \E id \in Ids : GetSession(id)
    \/ \E id \in Ids, data \in Dicts : UpdateSession(id, data)
    \/ \E id \in Ids : DeleteSession(id)

\* The session functions and upload_photos at one instant, while the Redis
\* server comes and goes.
NextCalls ==
    \/ CreateSession(CHAT_ROOM, Some(RoomPayload), 0)
    \/ \E bad \in BOOLEAN : UploadPhotos("x", bad)
    \/ \E id \in Ids : GetSession(id)
    \/ \E id \in Ids : UpdateSession(id, RenamePayload)
    \/ \E id \in Ids : DeleteSession(id)
    \/ Outage
    \/ Recovery

\* The reaper over several sessions: they are created, kept in Redis beyond
\* their expiry by updates, and reaped.
NextReap ==
    \/ CreateSessionWithin(MaxReapSessions, CHAT_ROOM, Some(RoomPayload), 0)
    \/ \E id \in ReapIds : UpdateSession(id, RenamePayload)
    \/ CleanupExpiredSessions
    \/ Tick

\* shutdown_event: the Redis client, when there is one, is closed; ret tells
\* that close() was called.  Nothing else is touched.
shutdown_event(st) ==
    Result(st, IF st.redis_client THEN Some("closed") ELSE None, FALSE)

ShutdownEvent ==
    /\ store' = shutdown_event(store).st
    /\ last' = Call("shutdown_event", 0, "", None, shutdown_event(store).ret, FALSE, None)
    /\ UNCHANGED <<now, redis_mode, next_reap, ledger, mirror, twin, hubvars>>

\* The process serves until the shutdown event has run.
Serving == last.op # "shutdown_event"

\* A chat room and its websockets up to the shutdown of the process.
NextStop ==
    \/ Serving /\ CreateSession(CHAT_ROOM, Some(ChatRoomPayload), 0)
    \/ Serving /\ \E c \in Conns, session_id \in Rooms : Connect(c, session_id)
    \/ Serving /\ \E c \in Conns : PeerCloses(c)
    \/ Serving /\ \E c \in Conns : Disconnect(c)
    \/ Serving /\ ShutdownEvent

\* The reaper loop and the calls that give it something to do.
NextLoop ==
    \/ CreateSession(CHAT_ROOM, Some(RoomPayload), 0)
    \/ CleanupExpiredSessions
    \/ Tick

\* update_session calls that overlap each other and delete_session.
NextRace ==
    \/ CreateSession(CHAT_ROOM, Some(RoomPayload), 0)
    \/ \E h \in Handlers, id \in Ids, data \in {RenamePayload, RetitlePayload} :
          UpdateCall(h, id, data)
    \/ \E h \in Handlers : UpdateRead(h)
    \/ \E h \in Handlers : UpdateSetex(h)
    \/ \E h \in Handlers : UpdateFinish(h)
    \/ \E id \in Ids : DeleteSession(id)

\* Chat handlers of one room that overlap each other and delete_session.
NextChatRace ==
    \/ CreateSession(CHAT_ROOM, Some(ChatRoomPayload), 0)
    \/ \E c \in Conns, session_id \in Rooms : Connect(c, session_id)
    \/ \E h \in Handlers, c \in Conns : ChatReceive(h, c, ChatText)
    \/ \E h \in Handlers : UpdateRead(h)
    \/ \E h \in Handlers : UpdateSetex(h)
    \/ \E h \in Handlers : UpdateFinish(h)
    \/ \E h \in Handlers : ChatSend(h)
    \/ \E id \in Ids : DeleteSession(id)

\* Submissions to one quick poll that overlap each other.
NextPollRace ==
    \/ CreateSession(QUICK_POLL, Some(PollPayload), 0)
    \/ \E h \in Handlers, id \in Ids, responses \in PollAnswers : SubmitPoll(h, id, responses)
    \/ \E h \in Handlers : UpdateRead(h)
    \/ \E h \in Handlers : UpdateSetex(h)
    \/ \E h \in Handlers : UpdateFinish(h)

\* A quick poll, its submissions and the reading of its results, with or
\* without Redis.
NextPoll ==
    \/ CreateSession(QUICK_POLL, Some(PollPayload), 0)
    \/ \E h \in Handlers, id \in Ids, responses \in PollAnswers : SubmitPoll(h, id, responses)
    \/ \E h \in Handlers : UpdateRead(h)
    \/ \E h \in Handlers : UpdateSetex(h)
    \/ \E h \in Handlers : UpdateFinish(h)
    \/ \E id \in Ids : GetPollResults(id)

Spec == Init /\ [][Next]_vars
SpecUp == InitUp /\ [][Next]_vars
SpecDown == InitDown /\ [][Next]_vars
SpecTwin == InitTwin /\ [][Next]_vars
SpecSteady == InitSteady /\ [][Next]_vars
SpecData == Init /\ [][NextData]_vars
SpecDataUp == InitUp /\ [][NextData]_vars
SpecOutage == InitUp /\ [][Next \/ Outage]_vars
SpecChat == InitSteady /\ [][NextChat]_vars
SpecCalls == InitSteady /\ [][NextCalls]_vars
SpecReap == Init /\ [][NextReap]_vars
\* The reaper task is scheduled whenever its sleep has ended, and time passes.
SpecLoop ==
    Init /\ [][NextLoop]_vars /\ WF_vars(Tick) /\ WF_vars(CleanupExpiredSessions)
SpecStop == InitSteady /\ [][NextStop]_vars
SpecRace == InitUp /\ [][NextRace]_vars
SpecChatRace == InitUp /\ [][NextChatRace]_vars
SpecPollRace == InitUp /\ [][NextPollRace]_vars
SpecPoll == InitSteady /\ [][NextPoll]_vars
SpecHub == InitDown /\ [][NextHub]_vars

\* ------------------------------------------------------------ the claims
\* What get_session(id) may return in the current state: one value for each
\* way its Redis calls may answer.
GetResults(st, id, t) ==
    {get_session(st, id, t, ping, rget).ret : ping \in Answers, rget \in Answers}

StoreOps == {"create_session", "get_session", "update_session", "delete_session"}

\* C1: a record that was created and not deleted is returned by get_session
\* exactly while now <= expires_at + 2 minutes, whichever backend holds it.
C1_VisibleThroughReadGrace ==
    last.op = "get_session" =>
        (last.ret # None <=>
            /\ ledger[last.id].state = "live"
            /\ now <= ledger[last.id].expires_at + READ_GRACE_MINUTES)

\* C2: after delete_session(id) has completed, neither the record nor the
\* session's directory is left.
C2_DeletionIsTotal ==
    last.op = "delete_session" =>
        /\ last.id \notin Held(store)
        /\ last.id \notin store.dirs

\* The copies of the record of id that the backends hold.
Copies(st, id) ==
    (IF id \in DOMAIN st.redis_db THEN {st.redis_db[id].val} ELSE {})
    \cup (IF id \in DOMAIN st.memory_storage THEN {st.memory_storage[id]} ELSE {})

\* The payload a record is created with.
InitialData(data) == IF data = None THEN EmptyDict ELSE Val(data)

\* C3: create_session followed at once by get_session returns a record of
\* the requested type and payload whose expires_at - created_at is the TTL.
C3_CreateThenGet ==
    (last.op = "create_session" /\ ~last.raised) =>
        \A g \in GetResults(store, last.id, now) :
            /\ g # None
            /\ Val(g).type = last.type
            /\ Val(g).data = InitialData(last.data)
            /\ Val(g).expires_at - Val(g).created_at = SESSION_TTL_MINUTES

\* C4: for a record that get_session returns, update_session(id, partial)
\* followed by get_session(id) returns the record with the fields of partial
\* overridden in its data and everything else as it was.
C4_UpdateThenGet ==
    [][last'.op = "update_session" =>
          \A r \in GetResults(store, last'.id, now) :
              (GetResults(store, last'.id, now) = {r} /\ r # None) =>
                  GetResults(store', last'.id, now') =
                      {Some([Val(r) EXCEPT !.data = DictUpdate(@, Val(last'.data))])}]_vars

\* C5: update_session on an id that get_session reports absent changes no
\* backend, raises nothing and leaves the id absent.
C5_UpdateOfAbsentWritesNothing ==
    [][(last'.op = "update_session" /\ GetResults(store, last'.id, now) = {None}) =>
          /\ store'.redis_db = store.redis_db
          /\ store'.memory_storage = store.memory_storage
          /\ ~last'.raised
          /\ GetResults(store', last'.id, now') = {None}]_vars

\* C6: the expires_at of a record and the expiry of its Redis key stay the
\* ones fixed at creation, created_at + TTL.
C6_ExpiryFixedAtCreation ==
    \A id \in Ids :
        /\ \A rec \in Copies(store, id) :
               rec.expires_at = rec.created_at + SESSION_TTL_MINUTES
        /\ id \in DOMAIN store.redis_db =>
               store.redis_db[id].exp =
                   store.redis_db[id].val.created_at + SESSION_TTL_MINUTES

\* C7: one reap cycle deletes every record that was past the reap grace
\* period when it started, from every backend that holds it, and get_session
\* then reports it absent.
C7_ReapCycleDeletesExpired ==
    [][last'.op = "cleanup_expired_sessions" =>
          \A id \in Ids :
              (\E rec \in Copies(store, id) : ReapExpired(rec, now)) =>
                  /\ id \notin Held(store')
                  /\ GetResults(store', id, now') = {None}]_vars

\* C8: a reap cycle leaves alone every record with now <= expires_at + 5
\* minutes, and every record it deletes was already invisible to get_session.
C8_ReapSparesGracePeriod ==
    [][last'.op = "cleanup_expired_sessions" =>
          \A id \in Held(store) :
              /\ (\E rec \in Copies(store, id) : now <= rec.expires_at + REAP_GRACE_MINUTES) =>
                     /\ Copies(store', id) = Copies(store, id)
                     /\ DOMAIN store'.redis_db \cap {id} = DOMAIN store.redis_db \cap {id}
                     /\ DOMAIN store'.memory_storage \cap {id} = DOMAIN store.memory_storage \cap {id}
                     /\ store'.dirs \cap {id} = store.dirs \cap {id}
              /\ Copies(store', id) # Copies(store, id) =>
                     GetResults(store, id, now) = {None}]_vars

\* A cycle has run over a record that is exactly at the end of its reap grace
\* period and has left it in place.
C8_Witness ==
    /\ last.op = "cleanup_expired_sessions"
    /\ \E id \in Held(store) : \E rec \in Copies(store, id) :
           now = rec.expires_at + REAP_GRACE_MINUTES

\* C9: the same calls return the same values with Redis healthy and with
\* Redis unavailable, and none of them fails.
C9_FallbackEquivalence ==
    (mirror /\ last.op \in StoreOps) => (last.ret = last.tret /\ ~last.raised)

\* C10: no Redis failure reaches the caller of a session function, and
\* create_session always stores the record.
C10_RedisFailureNeverSurfaces ==
    last.op \in StoreOps =>
        /\ ~last.raised
        /\ last.op = "create_session" => last.id \in Held(store)

\* C11: a record created while Redis was healthy and not deleted is still
\* returned by get_session, with its latest payload, after Redis has become
\* unavailable, up to expires_at + 2 minutes.
C11_InFlightSurvivesOutage ==
    (/\ last.op = "get_session"
     /\ redis_mode = "down"
     /\ ledger[last.id].state = "live"
     /\ now <= ledger[last.id].expires_at + READ_GRACE_MINUTES) =>
        /\ last.ret # None
        /\ last.id \in DOMAIN store.memory_storage =>
               last.ret = Some(store.memory_storage[last.id])

\* The connections registered under a session id: their handler has called
\* connect and has not called disconnect.
Registered(session_id) ==
    {c \in Conns : sockets[c].state \in {"open", "gone"} /\ sockets[c].id = session_id}

\* The delivery attempts a call made to a connection.
AttemptsTo(snd, c) == {i \in 1..Len(snd.attempts) : snd.attempts[i].conn = c}

\* C12: a send_to_session during which no connect or disconnect ran makes
\* exactly one delivery attempt to each connection registered under the
\* session id and none to any other; with no connection left it makes none.
C12_FanOut ==
    (sending.status = "done" /\ ~sending.disturbed) =>
        \A c \in Conns :
            Cardinality(AttemptsTo(sending, c)) =
                IF c \in Registered(sending.id) THEN 1 ELSE 0

\* A broadcast has reached the two connections that remain after a third one
\* has disconnected.
C12_Witness ==
    /\ sending.status = "done" /\ ~sending.disturbed
    /\ Cardinality(Registered(sending.id)) = 2
    /\ Len(sending.attempts) = 2
    /\ \E c \in Conns : sockets[c].state = "closed"

\* C13: a session id has an entry in active_connections exactly when a
\* connection is registered for it, and no entry holds an empty list.
C13_NoEmptyEntry ==
    \A session_id \in Rooms :
        /\ session_id \in DOMAIN active_connections <=> Registered(session_id) # {}
        /\ session_id \in DOMAIN active_connections =>
               active_connections[session_id] # <<>>

\* The last connection of a session has disconnected and the entry is gone.
C13_Witness ==
    /\ \E c \in Conns : sockets[c].state = "closed"
    /\ \A c \in Conns : sockets[c].state \in {"new", "closed"}
    /\ DOMAIN active_connections = {}

\* C14: a connection to which delivery failed during send_to_session is no
\* longer in the session's list when the call has completed.
C14_FailedDeliveryDisconnects ==
    sending.status = "done" =>
        \A i \in 1..Len(sending.attempts) :
            ~sending.attempts[i].ok =>
                \/ sending.id \notin DOMAIN active_connections
                \/ ~InList(active_connections[sending.id], sending.attempts[i].conn)

\* C15: a delivery that fails is not raised to the caller of send_to_session
\* and every connection registered for the session still gets its attempt.
C15_FailureDoesNotStopFanOut ==
    (sending.status = "done" /\ ~sending.disturbed) =>
        /\ ~sending.raised
        /\ \A c \in Registered(sending.id) : AttemptsTo(sending, c) # {}

\* The first delivery of a broadcast has failed and the next one was made.
C15_Witness ==
    /\ sending.status = "done" /\ ~sending.disturbed
    /\ Len(sending.attempts) >= 2
    /\ ~sending.attempts[1].ok
    /\ sending.attempts[2].ok

\* C16: under every interleaving the list of a session holds exactly the
\* registered connections, and a send_to_session makes exactly one delivery
\* attempt to every connection that stayed registered from its start to
\* its end.
C16_Linearizable ==
    /\ \A session_id \in DOMAIN active_connections :
           {active_connections[session_id][i] :
               i \in 1..Len(active_connections[session_id])} = Registered(session_id)
    /\ sending.status = "done" =>
           \A c \in sending.stayed : Cardinality(AttemptsTo(sending, c)) = 1

\* The record get_session returns for id whatever Redis answers, if there is
\* exactly one.
Visible(st, id, t) ==
    LET g == GetResults(st, id, t)
    IN  IF Cardinality(g) = 1 /\ g # {None} THEN CHOOSE r \in g : TRUE ELSE None

\* C17: when a connection of a visible chat room sends {text: x}, the stored
\* message list grows by exactly one entry carrying a generated id, the
\* text x and a timestamp, and that same entry is what is sent to every
\* connection registered for the session.
C17_ChatEndToEnd ==
    [][(last'.op = "chat_websocket" /\ Visible(store, last'.id, now) # None) =>
          LET before == Messages(Val(Visible(store, last'.id, now)).data)
              after == Visible(store', last'.id, now')
          IN  /\ after # None
              /\ Len(Messages(Val(after).data)) = Len(before) + 1
              /\ SubSeq(Messages(Val(after).data), 1, Len(before)) = before
              /\ LET entry == Messages(Val(after).data)[Len(before) + 1]
                 IN  /\ DOMAIN entry = {"id", "text", "timestamp"}
                     /\ entry.text = Val(last'.data).text
                     /\ sending'.status = "done"
                     /\ sending'.msg = Some(entry)
                     /\ \A c \in Registered(last'.id) :
                            Cardinality(AttemptsTo(sending', c)) = 1]_vars

\* C18: delete_session removes the record from the in-memory map and, when
\* Redis is reachable, from Redis; when Redis fails the in-memory copy is
\* removed all the same and nothing is raised.
C18_DeleteFromEveryBackend ==
    last.op = "delete_session" =>
        /\ last.id \notin DOMAIN store.memory_storage
        /\ ~last.raised
        /\ redis_mode = "up" => last.id \notin DOMAIN store.redis_db

\* The redis.delete of a delete_session has raised on the established client
\* and the key is still in Redis.
C18_Witness ==
    /\ last.op = "delete_session"
    /\ redis_mode = "down"
    /\ store.redis_client
    /\ last.id \in DOMAIN store.redis_db
    /\ ledger[last.id].state = "deleted"

\* C19: a record that only the in-memory map holds, written while Redis was
\* unavailable, is never written into Redis by a later call.
C19_NoReconciliation ==
    [][\A id \in Ids :
          (id \in DOMAIN store.memory_storage /\ id \notin DOMAIN store.redis_db) =>
              id \notin DOMAIN store'.redis_db]_vars

\* C20: in a reap cycle every enumerated record past the reap grace period
\* is deleted unless the error of the cycle was on that record itself: an
\* error on one record does not keep the cycle from the others.
C20_ReapContinuesOnItemError ==
    [][last'.op = "cleanup_expired_sessions" =>
          \A id \in last'.listed :
              (/\ \E rec \in Copies(store, id) : ReapExpired(rec, now)
               /\ id \notin last'.failed) =>
                  id \notin Held(store')]_vars

\* C21: after a reap cycle that ended in an error the loop sleeps until one
\* interval has passed (the clock reaches next_reap, no cycle in between) and
\* then runs another cycle.
C21_ReaperSurvivesErrors ==
    (/\ last.op = "cleanup_expired_sessions"
     /\ last.raised
     /\ now + REAP_INTERVAL_MINUTES <= MaxTime)
        ~> (/\ last.op # "cleanup_expired_sessions"
            /\ now = next_reap
            /\ <>(last.op = "cleanup_expired_sessions"
                   /\ next_reap = now + REAP_INTERVAL_MINUTES))

\* A cycle has raised while the key of a session was in Redis, at an instant
\* that leaves room for the next cycle.
C21_Witness ==
    /\ last.op = "cleanup_expired_sessions"
    /\ last.raised
    /\ DOMAIN store.redis_db # {}
    /\ now + REAP_INTERVAL_MINUTES <= MaxTime

\* C22: a session that no client deletes is held by no backend once a reap
\* cycle has started after expires_at + 5 minutes.
C22_EverySessionVanishes ==
    \A id \in Ids :
        (/\ ledger[id].state = "live"
         /\ next_reap - REAP_INTERVAL_MINUTES > ledger[id].expires_at + REAP_GRACE_MINUTES) =>
            id \notin Held(store)

\* C23: when the shutdown event has run, no connection is registered in the
\* ConnectionManager any more, every websocket has been closed, and the
\* Redis client, if there was one, has been closed.
C23_ShutdownReleasesEverything ==
    last.op = "shutdown_event" =>
        /\ DOMAIN active_connections = {}
        /\ \A c \in Conns : sockets[c].state \notin {"open", "gone"}
        /\ store.redis_client => last.ret = Some("closed")

\* C24: get_session changes the contents of no backend and removes no
\* directory; for a record past its read grace period it only answers None.
C24_GetOnlyFilters ==
    [][last'.op = "get_session" =>
          /\ store'.redis_db = store.redis_db
          /\ store'.memory_storage = store.memory_storage
          /\ store'.dirs = store.dirs]_vars

\* No handler is between two of its steps.
Quiescent == \A h \in Handlers : inflight[h].pc \in {"idle", "done"}

\* C25: once delete_session(id) has completed no backend holds a record for
\* id again, whatever update_session calls overlap it.
C25_NeverResurrected ==
    \A id \in Ids : ledger[id].state = "deleted" => id \notin Held(store)

\* C29: when no update_session is in progress and both Redis and the
\* in-memory map hold a record for an id, the two copies are equal.
C29_BackupConsistency ==
    Quiescent =>
        \A id \in Ids :
            (id \in DOMAIN store.redis_db /\ id \in DOMAIN store.memory_storage) =>
                store.redis_db[id].val = store.memory_storage[id]

\* C26: a message is broadcast only after an update_session that stored it
\* has completed.
C26_BroadcastAfterPersist ==
    (last.op = "send_to_session" /\ sending.attempts # <<>>) => last.ret = Some(TRUE)

\* C27: when all chat handlers of a session have finished, every message that
\* was broadcast is in the list of the stored record, in each backend.
C27_NoLostMessage ==
    Quiescent =>
        \A h \in Handlers :
            (inflight[h].sent /\ ledger[inflight[h].id].state = "live") =>
                /\ Copies(store, inflight[h].id) # {}
                /\ \A rec \in Copies(store, inflight[h].id) :
                       InList(Messages(rec.data), Val(inflight[h].entry))

\* C28: a connection whose handler has terminated, for whatever reason, is
\* in no list of the ConnectionManager.
C28_NoConnectionLeak ==
    \A c \in Conns :
        sockets[c].state \in {"closed", "crashed"} =>
            \A session_id \in DOMAIN active_connections :
                ~InList(active_connections[session_id], c)

\* A poll record that showed its results still shows them, with the same
\* responses.
PollClosed(old, new) ==
    old.data.results_shown =>
        new.data.results_shown /\ new.data.responses = old.data.responses

\* C30: once the poll record that get_session serves (with Redis answering,
\* the one in Redis) has results_shown true, it stays true and the record's
\* responses do not change.
C30_PollRevealMonotonic ==
    [][\A id \in Ids :
          (id \in DOMAIN store.redis_db /\ id \in DOMAIN store'.redis_db) =>
              PollClosed(store.redis_db[id].val, store'.redis_db[id].val)]_vars

\* A submission to the poll has been handled to its end.
Handled(id) ==
    \E h \in Handlers :
        /\ inflight[h].kind = "poll"
        /\ inflight[h].id = id
        /\ inflight[h].pc = "done"
        /\ inflight[h].stored

\* C31: once a submission has been handled and no handler is at work, every
\* stored copy of a poll record shows its results exactly when it holds at
\* least min_responses responses; and get_poll_results returns responses only
\* when the record it read shows its results.
C31_RevealIffEnough ==
    /\ \A id \in Ids :
           (Quiescent /\ Handled(id)) =>
               \A rec \in Copies(store, id) :
                   rec.data.results_shown
                       <=> (Len(rec.data.responses) >= rec.data.min_responses)
    /\ (last.op = "get_poll_results" /\ last.ret # None) =>
           /\ last.data # None
           /\ Val(last.data).data.results_shown
           /\ Val(last.data).data.responses = Val(last.ret)

====
